---- MODULE Spec2Model ----
(***************************************************************************)
(* A model of preprocessing/preprocessing.py: the Tokenizer (vocabulary    *)
(* building, text <-> index sequence conversion, weight matrix creation)   *)
(* and the WordEmbedding store (load, get).                                *)
(*                                                                         *)
(* Conventions                                                             *)
(*   - A text is given as the token stream the spaCy pipeline produces for *)
(*     it (a sequence of token surface strings); str.lower() is the table  *)
(*     Lower.                                                              *)
(*   - Python's None is the string None, and <<>> for an attribute that    *)
(*     holds None or a dict or array (<<value>>); a dict is a function;    *)
(*     the OrderedDict words_count is a sequence of [word, count] records. *)
(*   - A call's outcome is the record [err, val]: err = NoError and the    *)
(*     returned value, or the name of the exception raised.                *)
(*   - Floats are counted in tenths (the field "0.1" parses to 1).         *)
(***************************************************************************)
EXTENDS Integers, Sequences, FiniteSets, TLC

VARIABLES
  \* Tokenizer
  oov_token, n_words, vocab, reverse_vocab, words_count,
  \* WordEmbedding
  dimensions, oov_init, random_state, embedding, we_vocab, we_reverse_vocab,
  \* the conversion or lookup whose result the client holds:
  \* [op, arg, src, err, val], op = "none" when it holds none
  last,
  \* history: the latest load call, [file, err]
  last_load,
  \* history: distinct lowercased tokens in first-seen order; number of fit
  \* calls; whether some load call has returned normally
  seen, nfits, ever_loaded

tok_vars == <<oov_token, n_words, vocab, reverse_vocab, words_count>>
we_vars  == <<dimensions, oov_init, random_state, embedding, we_vocab, we_reverse_vocab>>
vars == <<tok_vars, we_vars, last, last_load, seen, nfits, ever_loaded>>

-----------------------------------------------------------------------------
(* Bounds of the model *)

\* tokens of one fit call, over all its texts
MaxTokens == 3
\* texts of one fit call
MaxTexts == 2
\* fit calls on one Tokenizer
MaxFits == 2
\* tokens of one texts_to_sequences call, over all its texts
MaxQueryTokens == 2
\* lines of an embedding file
MaxLines == 2
\* texts of a fit call and lines of an embedding file where a weight matrix
\* is built from the two
MaxMatrixTexts == 1
MaxMatrixLines == 1

-----------------------------------------------------------------------------
(* Values *)

None == "None"
NoError == "NoError"

\* token surface forms the pipeline can produce
Tokens == {"A", "a", "b"}

\* oov_token arguments of Tokenizer(): unset, a string that also occurs as a
\* token, a string no lowercased token equals
OovTokens == {None, "b", "UNK"}

\* str.lower()
Lower(t) ==
  CASE t = "A" -> "a"
    [] t = "UNK" -> "unk"
    [] OTHER -> t

EmptyDict == [k \in {} |-> 0]

\* d[k] = v
Put(d, k, v) == [x \in (DOMAIN d) \cup {k} |-> IF x = k THEN v ELSE d[x]]

SeqsUpTo(S, n) == UNION {[1..k -> S] : k \in 0..n}

\* lists of at most nTexts texts holding at most nTokens tokens together
RECURSIVE TextLists(_, _)
TextLists(nTexts, nTokens) ==
  IF nTexts = 0 THEN {<<>>}
  ELSE {<<>>} \cup
       UNION {{<<t>> \o rest : rest \in TextLists(nTexts - 1, nTokens - Len(t))} :
              t \in SeqsUpTo(Tokens, nTokens)}

FitInputs == TextLists(MaxTexts, MaxTokens)

Ok(v) == [err |-> NoError, val |-> v]
Raise(e) == [err |-> e, val |-> None]

-----------------------------------------------------------------------------
(* Tokenizer *)

\* Tokenizer.__init__
TokenizerNew(oov) ==
  [oov_token |-> oov,
   n_words |-> IF oov # None THEN 1 ELSE 0,
   vocab |-> EmptyDict,
   reverse_vocab |-> EmptyDict,
   words_count |-> <<>>]

\* the Tokenizer object of the current state
Self ==
  [oov_token |-> oov_token, n_words |-> n_words, vocab |-> vocab,
   reverse_vocab |-> reverse_vocab, words_count |-> words_count]

\* a fit that starts the vocabulary afresh on every call
RegisterOovRefit(st) ==
  IF st.oov_token # None
    THEN [st EXCEPT !.vocab = Put(EmptyDict, st.oov_token, 1),
                    !.reverse_vocab = Put(EmptyDict, 1, st.oov_token),
                    !.n_words = 1]
    ELSE [st EXCEPT !.vocab = EmptyDict, !.reverse_vocab = EmptyDict,
                    !.n_words = 0]

\* fit, lines 66-68: register the OOV token at index 1
RegisterOov(st) ==
  IF st.oov_token # None
    THEN [st EXCEPT !.vocab = Put(@, st.oov_token, 1),
                    !.reverse_vocab = Put(@, 1, st.oov_token)]
    ELSE st

\* a new word given the index n_words instead of n_words + 1
AddWordOffByOne(st, w) ==
  IF w \notin DOMAIN st.vocab
    THEN [st EXCEPT !.vocab = Put(@, w, st.n_words),
                    !.reverse_vocab = Put(@, st.n_words, w),
                    !.n_words = @ + 1]
    ELSE st

\* fit, lines 74-77: a word not in vocab gets the next index
AddWord(st, w) ==
  IF w \notin DOMAIN st.vocab
    THEN [st EXCEPT !.vocab = Put(@, w, st.n_words + 1),
                    !.reverse_vocab = Put(@, st.n_words + 1, w),
                    !.n_words = @ + 1]
    ELSE st

InCounts(wc, w) == \E i \in 1..Len(wc) : wc[i].word = w

\* fit, lines 80-83: count the occurrence, a new word goes to the table's end
CountWord(wc, w) ==
  IF ~InCounts(wc, w)
    THEN Append(wc, [word |-> w, count |-> 1])
    ELSE [i \in 1..Len(wc) |->
            IF wc[i].word = w THEN [wc[i] EXCEPT !.count = @ + 1] ELSE wc[i]]

\* fit, lines 72-83: one token
FitToken(st, token) ==
  LET w == Lower(token)
      st1 == AddWord(st, w)
  IN  [st1 EXCEPT !.words_count = CountWord(@, w)]

\* fit, line 72: the tokens of one doc
RECURSIVE FitDoc(_, _)
FitDoc(st, doc) ==
  IF doc = <<>> THEN st ELSE FitDoc(FitToken(st, Head(doc)), Tail(doc))

\* fit, line 70: the texts
RECURSIVE FitTexts(_, _)
FitTexts(st, texts) ==
  IF texts = <<>> THEN st ELSE FitTexts(FitDoc(st, Head(texts)), Tail(texts))

\* a descending sort that is not stable: an item goes before its equals
InsertDescUnstable(sorted, item) ==
  LET before == {i \in 1..Len(sorted) : sorted[i].count > item.count}
      k == Cardinality(before)
  IN  SubSeq(sorted, 1, k) \o <<item>> \o SubSeq(sorted, k + 1, Len(sorted))

\* sorted(..., key=count, reverse=True) is stable: an item goes behind every
\* item whose count is at least its own
InsertDesc(sorted, item) ==
  LET before == {i \in 1..Len(sorted) : sorted[i].count >= item.count}
      k == Cardinality(before)
  IN  SubSeq(sorted, 1, k) \o <<item>> \o SubSeq(sorted, k + 1, Len(sorted))

RECURSIVE SortInto(_, _)
SortInto(sorted, items) ==
  IF items = <<>> THEN sorted
  ELSE SortInto(InsertDesc(sorted, Head(items)), Tail(items))

\* fit, line 86
SortCounts(wc) == SortInto(<<>>, wc)

\* Tokenizer.fit
FitResult(st, texts) ==
  LET st1 == FitTexts(RegisterOov(st), texts)
  IN  [st1 EXCEPT !.words_count = SortCounts(@)]

\* history: the distinct lowercased tokens, in first-seen order
RECURSIVE SeenAfter(_, _)
SeenAfter(s, tokens) ==
  IF tokens = <<>> THEN s
  ELSE LET w == Lower(Head(tokens))
       IN  SeenAfter(IF \E i \in 1..Len(s) : s[i] = w THEN s ELSE Append(s, w),
                     Tail(tokens))

RECURSIVE Flatten(_)
Flatten(texts) ==
  IF texts = <<>> THEN <<>> ELSE Head(texts) \o Flatten(Tail(texts))

\* the client has taken the result of its last conversion or lookup and is
\* free to make its next call
Idle == last.op = "none"

NoCall ==
  [op |-> "none", arg |-> None, src |-> None, err |-> NoError, val |-> None]

Fit(texts) ==
  /\ Idle
  /\ nfits < MaxFits
  /\ LET st == FitResult(Self, texts)
     IN  /\ n_words' = st.n_words
         /\ vocab' = st.vocab
         /\ reverse_vocab' = st.reverse_vocab
         /\ words_count' = st.words_count
  /\ seen' = SeenAfter(seen, Flatten(texts))
  /\ nfits' = nfits + 1
  /\ UNCHANGED <<oov_token, we_vars, last, last_load, ever_loaded>>

\* texts_to_sequences that looks a token up without lowercasing it
TokenIndexNoLower(st, token) ==
  IF token \in DOMAIN st.vocab THEN Ok(<<st.vocab[token]>>)
  ELSE IF st.oov_token # None
    THEN IF st.oov_token \in DOMAIN st.vocab
           THEN Ok(<<st.vocab[st.oov_token]>>)
           ELSE Raise("KeyError")
  ELSE Ok(<<>>)

\* texts_to_sequences, lines 99-102: what one token appends to the sequence;
\* self.vocab[self.oov_token] raises KeyError when the OOV token has no entry
TokenIndex(st, token) ==
  LET w == Lower(token)
  IN  IF w \in DOMAIN st.vocab THEN Ok(<<st.vocab[w]>>)
      ELSE IF st.oov_token # None
        THEN IF st.oov_token \in DOMAIN st.vocab
               THEN Ok(<<st.vocab[st.oov_token]>>)
               ELSE Raise("KeyError")
      ELSE Ok(<<>>)

\* texts_to_sequences, lines 95-102: the sequence of one doc
RECURSIVE DocToSequence(_, _)
DocToSequence(st, doc) ==
  IF doc = <<>> THEN Ok(<<>>)
  ELSE LET h == TokenIndex(st, Head(doc))
       IN  IF h.err # NoError THEN h
           ELSE LET t == DocToSequence(st, Tail(doc))
                IN  IF t.err # NoError THEN t ELSE Ok(h.val \o t.val)

\* Tokenizer.texts_to_sequences
RECURSIVE TextsToSequencesResult(_, _)
TextsToSequencesResult(st, texts) ==
  IF texts = <<>> THEN Ok(<<>>)
  ELSE LET h == DocToSequence(st, Head(texts))
       IN  IF h.err # NoError THEN h
           ELSE LET t == TextsToSequencesResult(st, Tail(texts))
                IN  IF t.err # NoError THEN t ELSE Ok(<<h.val>> \o t.val)

\* ' '.join(words)
RECURSIVE Join(_)
Join(words) ==
  IF words = <<>> THEN ""
  ELSE IF Len(words) = 1 THEN Head(words)
  ELSE Head(words) \o " " \o Join(Tail(words))

\* sequences_to_texts, lines 114-119: the words of one sequence
RECURSIVE SequenceToWords(_, _)
SequenceToWords(st, sequence) ==
  IF sequence = <<>> THEN <<>>
  ELSE LET element == Head(sequence)
           rest == SequenceToWords(st, Tail(sequence))
       IN  IF element \in DOMAIN st.reverse_vocab
             THEN <<st.reverse_vocab[element]>> \o rest
           ELSE IF st.oov_token # None THEN <<st.oov_token>> \o rest
           ELSE rest

\* Tokenizer.sequences_to_texts
SequencesToTextsResult(st, sequences) ==
  Ok([i \in 1..Len(sequences) |-> Join(SequenceToWords(st, sequences[i]))])

QueryInputs == TextLists(MaxTexts, MaxQueryTokens)

TextsToSequences(texts) ==
  /\ Idle
  /\ LET r == TextsToSequencesResult(Self, texts)
     IN  last' = [op |-> "texts_to_sequences", arg |-> texts, src |-> None,
                  err |-> r.err, val |-> r.val]
  /\ UNCHANGED <<tok_vars, we_vars, last_load, seen, nfits, ever_loaded>>

\* the client hands the sequences it got from texts_to_sequences back to
\* sequences_to_texts; src keeps the texts they came from
SequencesToTexts ==
  /\ last.op = "texts_to_sequences"
  /\ last.err = NoError
  /\ LET r == SequencesToTextsResult(Self, last.val)
     IN  last' = [op |-> "sequences_to_texts", arg |-> last.val,
                  src |-> last.arg, err |-> r.err, val |-> r.val]
  /\ UNCHANGED <<tok_vars, we_vars, last_load, seen, nfits, ever_loaded>>

\* the client takes the result of a conversion or lookup; the conversions and
\* lookups change neither object, so the objects' states are those reached
\* with results left untaken
TakeResult ==
  /\ ~Idle
  /\ last' = NoCall
  /\ UNCHANGED <<tok_vars, we_vars, last_load, seen, nfits, ever_loaded>>

-----------------------------------------------------------------------------
(* WordEmbedding *)

MinDimensions == 50
MaxDimensions == 300

\* A vector is [kind, vals]: "values" with its numbers; "uniform", a fresh
\* sample of uniform(-0.5, 0.5) whose numbers are not modelled; "uninit", a
\* row of np.empty that was never written.
Values(v) == [kind |-> "values", vals |-> v]
Zeros(d) == Values([i \in 1..d |-> 0])
Uniform == [kind |-> "uniform", vals |-> <<>>]
Uninit == [kind |-> "uninit", vals |-> <<>>]

\* An attribute that holds None or a dict or array is <<>> or <<value>>.
NoneRef == <<>>
Some(v) == <<v>>
Val(ref) == ref[1]

\* WordEmbedding.__init__; rs is the kind of the random_state argument
WordEmbeddingNew(dims, init, rs) ==
  IF init \notin {"zero", "rand"} THEN Raise("ValueError")
  ELSE IF rs \notin {"int", "RandomState", None} THEN Raise("ValueError")
  ELSE IF dims \notin MinDimensions..MaxDimensions THEN Raise("ValueError")
  ELSE Ok([dimensions |-> dims,
           oov_init |-> init,
           random_state |-> IF rs = None THEN "numpy.random" ELSE "RandomState",
           embedding |-> NoneRef, vocab |-> NoneRef,
           reverse_vocab |-> NoneRef])

\* the WordEmbedding object of the current state
SelfWe ==
  [dimensions |-> dimensions, oov_init |-> oov_init,
   random_state |-> random_state, embedding |-> embedding,
   vocab |-> we_vocab, reverse_vocab |-> we_reverse_vocab]

\* the field strings float() accepts, and their values in tenths
NumericFields == {"0.1", "0.2"}

\* float(val)
ParseFloat(f) ==
  CASE f = "0.1" -> Ok(1)
    [] f = "0.2" -> Ok(2)
    [] OTHER -> Raise("ValueError")

\* load, line 198: np.array([float(val) for val in splitLine[1:]])
ParseFields(fields) ==
  IF \E i \in 1..Len(fields) : ParseFloat(fields[i]).err # NoError
    THEN Raise("ValueError")
    ELSE Ok([i \in 1..Len(fields) |-> ParseFloat(fields[i]).val])

\* load, line 200: self.embedding[i] = embedding, a numpy assignment of a 1-d
\* array to a row of d numbers: an array of d numbers is copied, an array of
\* one number is broadcast to the row, any other length raises ValueError
AssignRow(d, nums) ==
  IF Len(nums) = d THEN Ok(Values(nums))
  ELSE IF Len(nums) = 1 THEN Ok(Values([i \in 1..d |-> nums[1]]))
  ELSE Raise("ValueError")

\* a load that keeps the first row of a word that occurs again
LoadLineFirstWins(we, i, splitLine) ==
  IF splitLine = <<>> THEN [we |-> we, err |-> "IndexError"]
  ELSE LET word == Head(splitLine)
           nums == ParseFields(Tail(splitLine))
           row == IF nums.err # NoError THEN nums
                  ELSE AssignRow(we.dimensions, nums.val)
       IN  IF row.err # NoError THEN [we |-> we, err |-> row.err]
           ELSE [we |-> [we EXCEPT
                           !.embedding = Some([Val(@) EXCEPT ![i] = row.val]),
                           !.vocab = IF word \in DOMAIN Val(@) THEN @
                                     ELSE Some(Put(Val(@), word, i)),
                           !.reverse_vocab = Some(Put(Val(@), i, word))],
                 err |-> NoError]

\* load, lines 195-203: line number i (from 0), given as line.split()
LoadLine(we, i, splitLine) ==
  IF splitLine = <<>> THEN [we |-> we, err |-> "IndexError"]
  ELSE LET word == Head(splitLine)
           nums == ParseFields(Tail(splitLine))
           row == IF nums.err # NoError THEN nums
                  ELSE AssignRow(we.dimensions, nums.val)
       IN  IF row.err # NoError THEN [we |-> we, err |-> row.err]
           ELSE [we |-> [we EXCEPT
                           !.embedding = Some([Val(@) EXCEPT ![i] = row.val]),
                           !.vocab = Some(Put(Val(@), word, i)),
                           !.reverse_vocab = Some(Put(Val(@), i, word))],
                 err |-> NoError]

\* load, line 194: the lines from number i on; an exception ends the loop
\* and leaves the object as the lines before it made it
RECURSIVE LoadLines(_, _, _)
LoadLines(we, i, lines) ==
  IF lines = <<>> THEN [we |-> we, err |-> NoError]
  ELSE LET r == LoadLine(we, i, Head(lines))
       IN  IF r.err # NoError THEN r ELSE LoadLines(r.we, i + 1, Tail(lines))

\* WordEmbedding.load; the file is given as the list of its lines, each split
LoadResult(we, file) ==
  LoadLines([we EXCEPT
               !.embedding = Some([r \in 0..(Len(file) - 1) |-> Uninit]),
               !.vocab = Some(EmptyDict),
               !.reverse_vocab = Some(EmptyDict)],
            0, file)

\* WordEmbedding.get
GetResult(we, word, include_oov) ==
  IF we.vocab = NoneRef \/ we.embedding = NoneRef THEN Raise("RuntimeError")
  ELSE IF word \in DOMAIN Val(we.vocab)
    THEN Ok(Val(we.embedding)[Val(we.vocab)[word]])
  ELSE IF we.oov_init = "rand" /\ include_oov
    THEN \* numpy.random has default_rng, a RandomState has not
         IF we.random_state = "numpy.random" THEN Ok(Uniform)
         ELSE Raise("AttributeError")
  ELSE Ok(Zeros(we.dimensions))

\* a line: the word and n fields f
NumLine(word, n, f) == <<word>> \o [i \in 1..n |-> f]

\* the lines of embedding files for d dimensions: lines of d numbers, lines
\* of too few (none, one, d - 1) or too many numbers, a line with a field
\* that is no number, a blank line
FileLines(d) ==
  {NumLine("a", d, "0.1"), NumLine("b", d, "0.2")}
    \cup {NumLine("a", n, "0.1") : n \in {0, 1, d - 1, d + 1}}
    \cup {NumLine("a", d - 1, "0.1") \o <<"x">>, <<>>}

Files(d) == SeqsUpTo(FileLines(d), MaxLines)

Load(file) ==
  /\ Idle
  /\ LET r == LoadResult(SelfWe, file)
     IN  /\ embedding' = r.we.embedding
         /\ we_vocab' = r.we.vocab
         /\ we_reverse_vocab' = r.we.reverse_vocab
         /\ ever_loaded' = (ever_loaded \/ r.err = NoError)
         /\ last_load' = [file |-> file, err |-> r.err]
  /\ UNCHANGED <<tok_vars, dimensions, oov_init, random_state, last, seen,
                 nfits>>

\* words looked up: two that files hold, one that no file holds
GetWords == {"a", "b", "zzz"}

Get(word, include_oov) ==
  /\ Idle
  /\ LET r == GetResult(SelfWe, word, include_oov)
     IN  last' = [op |-> "get", arg |-> <<word, include_oov>>, src |-> None,
                  err |-> r.err, val |-> r.val]
  /\ UNCHANGED <<tok_vars, we_vars, last_load, seen, nfits, ever_loaded>>

-----------------------------------------------------------------------------
(* Tokenizer.create_weight_matrix *)

\* self.vocab.items(): the words in insertion order, which fit makes the
\* order of their indices
VocabItems(st) ==
  [i \in 1..Cardinality(DOMAIN st.vocab) |->
     CHOOSE w \in DOMAIN st.vocab :
       Cardinality({v \in DOMAIN st.vocab : st.vocab[v] <= st.vocab[w]}) = i]

\* create_weight_matrix, lines 132-140: the matrix before the words' rows are
\* written; the rand branch calls random_state.default_rng(), which
\* numpy.random has and a RandomState has not
InitialMatrix(st, we) ==
  IF we.oov_init = "rand"
    THEN IF we.random_state = "numpy.random"
           THEN Ok([r \in 0..st.n_words |->
                      IF r = 0 THEN Zeros(we.dimensions) ELSE Uniform])
           ELSE Raise("AttributeError")
    ELSE Ok([r \in 0..st.n_words |-> Zeros(we.dimensions)])

\* create_weight_matrix, lines 142-147: the rows of the words from number k
\* on; `word not in None` raises TypeError
RECURSIVE FillRows(_, _, _, _, _)
FillRows(st, we, words, matrix, out) ==
  IF words = <<>>
    THEN Ok([embedding_matrix |-> matrix, out_of_wordembedding |-> out])
  ELSE LET word == Head(words)
           index == st.vocab[word]
           vec == GetResult(we, word, TRUE)
       IN  IF we.vocab = NoneRef THEN Raise("TypeError")
           ELSE IF vec.err # NoError THEN vec
           ELSE IF index \notin DOMAIN matrix THEN Raise("IndexError")
           ELSE FillRows(st, we, Tail(words),
                         [matrix EXCEPT ![index] = vec.val],
                         IF word \notin DOMAIN Val(we.vocab)
                           THEN Append(out, word) ELSE out)

\* Tokenizer.create_weight_matrix; val.returned names what is returned, the
\* other fields of val are the locals at the return
CreateWeightMatrixResult(st, we, is_word_embedding, return_not_in_wordembedding) ==
  IF ~is_word_embedding THEN Raise("TypeError")
  ELSE LET m == InitialMatrix(st, we)
       IN  IF m.err # NoError THEN m
           ELSE LET r == FillRows(st, we, VocabItems(st), m.val, <<>>)
                IN  IF r.err # NoError THEN r
                    ELSE Ok([returned |->
                               IF return_not_in_wordembedding
                                 THEN <<"embedding_matrix", "out_of_wordembedding">>
                                 ELSE <<"word_embedding">>,
                             embedding_matrix |-> r.val.embedding_matrix,
                             out_of_wordembedding |-> r.val.out_of_wordembedding])

CreateWeightMatrix(is_word_embedding, return_not_in_wordembedding) ==
  /\ Idle
  /\ LET r == CreateWeightMatrixResult(Self, SelfWe, is_word_embedding,
                                       return_not_in_wordembedding)
     IN  last' = [op |-> "create_weight_matrix",
                  arg |-> <<is_word_embedding, return_not_in_wordembedding>>,
                  src |-> None, err |-> r.err, val |-> r.val]
  /\ UNCHANGED <<tok_vars, we_vars, last_load, seen, nfits, ever_loaded>>

-----------------------------------------------------------------------------
(* Specifications *)

TokenizerInit(oov) ==
  LET st == TokenizerNew(oov)
  IN  /\ oov_token = st.oov_token
      /\ n_words = st.n_words
      /\ vocab = st.vocab
      /\ reverse_vocab = st.reverse_vocab
      /\ words_count = st.words_count
      /\ seen = <<>>
      /\ nfits = 0

WordEmbeddingInit(dims, init, rs) ==
  LET new == WordEmbeddingNew(dims, init, rs)
      we == new.val
  IN  /\ new.err = NoError
      /\ dimensions = we.dimensions
      /\ oov_init = we.oov_init
      /\ random_state = we.random_state
      /\ embedding = we.embedding
      /\ we_vocab = we.vocab
      /\ we_reverse_vocab = we.reverse_vocab
      /\ ever_loaded = FALSE
      /\ last_load = [file |-> <<>>, err |-> "NoLoad"]

\* a Tokenizer with any oov_token setting, fitted repeatedly
InitVocab ==
  /\ \E oov \in OovTokens : TokenizerInit(oov)
  /\ WordEmbeddingInit(MinDimensions, "rand", None)
  /\ last = NoCall

NextVocab == \E texts \in FitInputs : Fit(texts)

SpecVocab == InitVocab /\ [][NextVocab]_vars

\* the same Tokenizer, fitted and used to convert texts and sequences
NextCodec ==
  \/ \E texts \in QueryInputs : Fit(texts)
  \/ \E texts \in QueryInputs : TextsToSequences(texts)
  \/ SequencesToTexts
  \/ TakeResult

SpecCodec == InitVocab /\ [][NextCodec]_vars

\* arguments of WordEmbedding(): accepted ones and one of each rejected kind
DimensionsArgs == {MinDimensions - 1, MinDimensions, MaxDimensions + 1}
OovInitArgs == {"zero", "rand", "ones"}
RandomStateArgs == {"int", "RandomState", None, "str"}

\* a WordEmbedding constructed with any accepted arguments, loaded and read
InitEmbedding ==
  /\ TokenizerInit(None)
  /\ \E dims \in DimensionsArgs, init \in OovInitArgs, rs \in RandomStateArgs :
       WordEmbeddingInit(dims, init, rs)
  /\ last = NoCall

NextEmbedding ==
  \/ \E file \in Files(dimensions) : Load(file)
  \/ \E word \in GetWords, include_oov \in BOOLEAN : Get(word, include_oov)
  \/ TakeResult

SpecEmbedding == InitEmbedding /\ [][NextEmbedding]_vars

\* a Tokenizer and a WordEmbedding, fitted, loaded and combined
InitMatrix ==
  /\ \E oov \in OovTokens : TokenizerInit(oov)
  /\ \E dims \in DimensionsArgs, init \in OovInitArgs, rs \in RandomStateArgs :
       WordEmbeddingInit(dims, init, rs)
  /\ last = NoCall

NextMatrix ==
  \/ \E texts \in TextLists(MaxMatrixTexts, MaxQueryTokens) : Fit(texts)
  \/ \E file \in SeqsUpTo(FileLines(dimensions), MaxMatrixLines) : Load(file)
  \/ \E is_we, flag \in BOOLEAN : CreateWeightMatrix(is_we, flag)
  \/ TakeResult

SpecMatrix == InitMatrix /\ [][NextMatrix]_vars

\* WordEmbedding(50), loaded repeatedly
InitLoad ==
  /\ TokenizerInit(None)
  /\ WordEmbeddingInit(MinDimensions, "rand", None)
  /\ last = NoCall

NextLoad == \E file \in Files(dimensions) : Load(file)

SpecLoad == InitLoad /\ [][NextLoad]_vars

-----------------------------------------------------------------------------
(* Properties of fit *)

\* position of w in the sequence s of distinct words
PosIn(s, w) == CHOOSE i \in 1..Len(s) : s[i] = w

\* position of w in the frequency table wc
PosInTable(wc, w) == CHOOSE i \in 1..Len(wc) : wc[i].word = w

FirstIndex == IF oov_token # None THEN 2 ELSE 1

Injective(d) == \A v, w \in DOMAIN d : v # w => d[v] # d[w]

\* the fitted words that are not the OOV token itself, in first-seen order
FittedWords == SelectSeq(seen, LAMBDA w : w # oov_token)

\* C1 as stated: after a fit every fitted word has an index, no two words
\* share one, and the fitted words hold the indices FirstIndex, FirstIndex+1,
\* ... in first-seen order (FirstIndex is 2 with an OOV token, else 1).
C1_FittedWordsDenseFromFirstIndex ==
  nfits >= 1 =>
    /\ \A i \in 1..Len(seen) : seen[i] \in DOMAIN vocab
    /\ Injective(vocab)
    /\ \A i \in 1..Len(seen) : vocab[seen[i]] = FirstIndex + i - 1

\* C1, amended: the same for the fitted words other than the OOV token; a
\* fitted token equal to the OOV token has the OOV token's index 1.
C1_FittedWordsDenseExceptOov ==
  nfits >= 1 =>
    /\ \A i \in 1..Len(seen) : seen[i] \in DOMAIN vocab
    /\ Injective(vocab)
    /\ \A i \in 1..Len(FittedWords) : vocab[FittedWords[i]] = FirstIndex + i - 1
    /\ oov_token # None => vocab[oov_token] = 1
    /\ DOMAIN vocab = {seen[i] : i \in 1..Len(seen)} \cup ({oov_token} \ {None})

\* a fit with an OOV token configured has seen two distinct words, the OOV
\* token among them
C1_Witness ==
  /\ nfits >= 1
  /\ oov_token # None
  /\ Len(seen) >= 2
  /\ \E i \in 1..Len(seen) : seen[i] = oov_token

Consistent(fwd, inv) ==
  /\ \A w \in DOMAIN fwd : fwd[w] \in DOMAIN inv /\ inv[fwd[w]] = w
  /\ \A i \in DOMAIN inv : inv[i] \in DOMAIN fwd /\ fwd[inv[i]] = i

\* C2: a step never removes a word from the vocabulary nor changes its index,
\* and leaves vocab and reverse_vocab inverse to each other.
C2_VocabularyOnlyGrows ==
  [][/\ \A w \in DOMAIN vocab : w \in DOMAIN vocab' /\ vocab'[w] = vocab[w]
     /\ Consistent(vocab', reverse_vocab')]_vars

\* two fits have been made on a Tokenizer with an OOV token; the vocabulary
\* holds two fitted words, one of them counted more than once
C2_Witness ==
  /\ nfits = 2
  /\ oov_token # None
  /\ Cardinality(DOMAIN vocab) >= 3
  /\ Len(seen) >= 2
  /\ Len(words_count) >= 2
  /\ words_count[1].count >= 2

CountsDescending(wc) ==
  \A i, j \in 1..Len(wc) : i < j => wc[i].count >= wc[j].count

\* C9 as stated: after every fit words_count is ordered by count descending,
\* words of equal count in the order of their first insertion.
C9_TiesInFirstInsertionOrder ==
  nfits >= 1 =>
    /\ CountsDescending(words_count)
    /\ \A i, j \in 1..Len(words_count) :
         (i < j /\ words_count[i].count = words_count[j].count)
           => PosIn(seen, words_count[i].word) < PosIn(seen, words_count[j].word)

\* C9, amended: every fit leaves words_count ordered by count descending,
\* words of equal count in the order they held before the sort: the order of
\* the table as the previous fit left it, then the words new in this fit in
\* first-seen order (on a fresh Tokenizer: first-insertion order).
C9_TiesInPriorTableOrder ==
  [][nfits' = nfits + 1 =>
       /\ CountsDescending(words_count')
       /\ \A i, j \in 1..Len(words_count') :
            (i < j /\ words_count'[i].count = words_count'[j].count)
              => LET Rank(w) ==
                       IF InCounts(words_count, w)
                         THEN PosInTable(words_count, w)
                         ELSE Len(words_count) + PosIn(seen', w)
                 IN  Rank(words_count'[i].word) < Rank(words_count'[j].word)
       /\ nfits = 0 =>
            \A i, j \in 1..Len(words_count') :
              (i < j /\ words_count'[i].count = words_count'[j].count)
                => PosIn(seen', words_count'[i].word)
                     < PosIn(seen', words_count'[j].word)]_vars

\* after a second fit two words of equal count stand against the order of
\* their first insertion
C9_Witness ==
  /\ nfits = 2
  /\ \E i, j \in 1..Len(words_count) :
       /\ i < j
       /\ words_count[i].count = words_count[j].count
       /\ PosIn(seen, words_count[i].word) > PosIn(seen, words_count[j].word)

-----------------------------------------------------------------------------
(* Properties of texts_to_sequences and sequences_to_texts *)

InVocab(token) == Lower(token) \in DOMAIN vocab

\* what C3 has texts_to_sequences emit for one text
RECURSIVE ExpectedSequence(_)
ExpectedSequence(doc) ==
  IF doc = <<>> THEN <<>>
  ELSE (IF InVocab(Head(doc)) THEN <<vocab[Lower(Head(doc))]>>
        ELSE IF oov_token # None THEN <<1>>
        ELSE <<>>) \o ExpectedSequence(Tail(doc))

\* C3: texts_to_sequences, called in any state of the Tokenizer, does not
\* fail and returns for each text, in order, the indices of its tokens: the
\* word's index, the OOV index 1 for an absent word if an OOV token is
\* configured (it being registered from construction on), nothing for an
\* absent word otherwise.
C3_TextsToSequencesTotal ==
  last.op = "texts_to_sequences" =>
    /\ last.err = NoError
    /\ last.val = [i \in 1..Len(last.arg) |-> ExpectedSequence(last.arg[i])]

\* the lowercased tokens of a text, those absent from the vocabulary dropped
RECURSIVE KnownLowered(_)
KnownLowered(doc) ==
  IF doc = <<>> THEN <<>>
  ELSE (IF InVocab(Head(doc)) THEN <<Lower(Head(doc))>> ELSE <<>>)
         \o KnownLowered(Tail(doc))

\* the lowercased tokens of a text, those absent from the vocabulary replaced
\* by the OOV token as configured
RECURSIVE OovReplaced(_)
OovReplaced(doc) ==
  IF doc = <<>> THEN <<>>
  ELSE <<IF InVocab(Head(doc)) THEN Lower(Head(doc)) ELSE oov_token>>
         \o OovReplaced(Tail(doc))

AllLowered(doc) == [i \in 1..Len(doc) |-> Lower(doc[i])]

\* C4 as stated: sequences_to_texts of the result of texts_to_sequences is,
\* text by text, the lowercased tokens joined by single spaces, absent tokens
\* being dropped only when no OOV token is configured.
C4_RoundTripReproducesTokens ==
  last.op = "sequences_to_texts" =>
       last.val = [i \in 1..Len(last.src) |->
                     Join(IF oov_token = None THEN KnownLowered(last.src[i])
                          ELSE AllLowered(last.src[i]))]

\* C4, amended: whenever texts_to_sequences returns, sequences_to_texts of its
\* result is, text by text, the lowercased tokens joined by single spaces,
\* each token absent from the vocabulary dropped when no OOV token is
\* configured and replaced by the OOV token as configured when one is;
\* texts_to_sequences fails only on a Tokenizer with an OOV token that was
\* never fitted, given a token (C3).
C4_RoundTripUpToOov ==
  /\ (last.op = "texts_to_sequences" /\ last.err # NoError) =>
       /\ last.err = "KeyError"
       /\ oov_token # None
       /\ nfits = 0
       /\ \E i \in 1..Len(last.arg) : last.arg[i] # <<>>
  /\ last.op = "sequences_to_texts" =>
       /\ last.err = NoError
       /\ last.val = [i \in 1..Len(last.src) |->
                        Join(IF oov_token = None THEN KnownLowered(last.src[i])
                             ELSE OovReplaced(last.src[i]))]

\* a round trip of a text with a known uppercase token and an absent one
C4_Witness ==
  /\ last.op = "sequences_to_texts"
  /\ \E i \in 1..Len(last.src) :
       /\ Len(last.src[i]) = 2
       /\ \E k \in 1..2 : last.src[i][k] = "A" /\ InVocab("A")
       /\ \E k \in 1..2 : ~InVocab(last.src[i][k])

-----------------------------------------------------------------------------
(* Properties of WordEmbedding *)

\* C7: as long as no load call has returned normally, get fails with the
\* RuntimeError 'No word embedding loaded.'
C7_GetFailsUntilLoadSucceeds ==
  (last.op = "get" /\ ~ever_loaded) => last.err = "RuntimeError"

\* a line of exactly d numeric fields after the word
WellFormedLine(line, d) ==
  /\ Len(line) = d + 1
  /\ \A i \in 2..Len(line) : line[i] \in NumericFields

WellFormed(file, d) == \A i \in 1..Len(file) : WellFormedLine(file[i], d)

\* C8: load returns normally exactly when every line of the file has exactly
\* `dimensions` numeric fields after the word, and fails otherwise.
C8_LoadFailsOnMalformedLine ==
  last_load.err # "NoLoad" =>
    (last_load.err = NoError <=> WellFormed(last_load.file, dimensions))

LoadedWellFormed ==
  /\ last_load.err = NoError
  /\ WellFormed(last_load.file, dimensions)

\* C10 as stated: after a successful load of a well-formed file vocab and
\* reverse_vocab are inverses of each other, and every row of the embedding
\* array is the row of exactly one word of vocab.
C10_LoadedMappingsInverse ==
  LoadedWellFormed =>
    /\ Consistent(Val(we_vocab), Val(we_reverse_vocab))
    /\ \A r \in DOMAIN Val(embedding) :
         Cardinality({w \in DOMAIN Val(we_vocab) : Val(we_vocab)[w] = r}) = 1

DistinctWords(file) ==
  \A i, j \in 1..Len(file) : i # j => file[i][1] # file[j][1]

\* C10, amended: after a successful load of a well-formed file, reverse_vocab
\* names for every row the word of its line, vocab gives every word the row
\* of its last line, and that row holds the numbers of that line; the two
\* are inverses of each other, every row being the row of exactly one word,
\* when no word occurs on more than one line.
C10_LoadedMappingsLastLineWins ==
  LoadedWellFormed =>
    LET file == last_load.file
        rows == 0..(Len(file) - 1)
        LastLine(w) == CHOOSE i \in 1..Len(file) :
                         /\ file[i][1] = w
                         /\ \A j \in (i + 1)..Len(file) : file[j][1] # w
        fwd == Val(we_vocab)
        inv == Val(we_reverse_vocab)
    IN  /\ DOMAIN Val(embedding) = rows
        /\ DOMAIN inv = rows
        /\ \A r \in rows : inv[r] = file[r + 1][1]
        /\ DOMAIN fwd = {file[i][1] : i \in 1..Len(file)}
        /\ \A w \in DOMAIN fwd :
             /\ fwd[w] = LastLine(w) - 1
             /\ Val(embedding)[fwd[w]] =
                  Values(ParseFields(Tail(file[LastLine(w)])).val)
        /\ DistinctWords(file) =>
             /\ Consistent(fwd, inv)
             /\ \A r \in rows :
                  Cardinality({w \in DOMAIN fwd : fwd[w] = r}) = 1

\* a well-formed file in which a word occurs on two lines has been loaded
C10_Witness ==
  /\ LoadedWellFormed
  /\ Len(last_load.file) >= 2
  /\ ~DistinctWords(last_load.file)

-----------------------------------------------------------------------------
(* Properties of create_weight_matrix *)

\* create_weight_matrix has been called on a Tokenizer fitted on some words
\* with a WordEmbedding whose latest load, of a well-formed file that is not
\* empty, returned normally
MatrixCall ==
  /\ last.op = "create_weight_matrix"
  /\ last.arg[1]
  /\ nfits >= 1
  /\ seen # <<>>
  /\ last_load.err = NoError
  /\ last_load.file # <<>>
  /\ WellFormed(last_load.file, dimensions)

\* C5: when create_weight_matrix returns, it returns the embedding matrix
\* alone if return_not_in_wordembedding is false, and the matrix with the
\* list of out-of-embedding words if it is true.
C5_ReturnsMatrix ==
  (MatrixCall /\ last.err = NoError) =>
    last.val.returned = IF last.arg[2]
                          THEN <<"embedding_matrix", "out_of_wordembedding">>
                          ELSE <<"embedding_matrix">>

\* C6: with oov_init = 'rand', whatever random_state was given,
\* create_weight_matrix completes and has built a matrix of vocabulary size
\* + 1 rows whose row 0 is the zero vector.
C6_RandMatrixBuilt ==
  (MatrixCall /\ oov_init = "rand") =>
    /\ last.err = NoError
    /\ DOMAIN last.val.embedding_matrix = 0..Cardinality(DOMAIN vocab)
    /\ last.val.embedding_matrix[0] = Zeros(dimensions)

====
